---- MODULE Spec2Model ----
(***************************************************************************)
(* Dialectic: the upgrade decision-and-recovery pipeline.                  *)
(*                                                                         *)
(*   SpecVersion  extractTargetVersion on one (patchedVersions, current)   *)
(*   SpecType     getUpgradeType on one (from, to)                         *)
(*   SpecPlan     suggestUpgrades on one audit snapshot                    *)
(*   SpecReplan   suggestUpgrades twice on one audit snapshot              *)
(*   Spec         applyUpgrade / runTests / rollbackChanges against one    *)
(*                project directory, one step per awaited operation        *)
(*   SpecOverlap  two applyUpgrade calls in flight at the same time        *)
(***************************************************************************)
EXTENDS Integers, Sequences, FiniteSets, TLC

VARIABLES
    verIn,      \* arguments of the version-classifier call
    verOut,     \* its result
    snapshot,   \* the parsed AuditResult handed to suggestUpgrades
    plan,       \* outcome of the last suggestUpgrades call
    prevPlan,   \* outcome of the suggestUpgrades call before it
    build,      \* which copy of the tools is running
    manifest,   \* <project>/package.json
    backupDir,  \* <project>/.dialectic-backup
    backedUp,   \* the manifest the last applyUpgrade call has put in a backup, if any
    clock,      \* Date.now()
    git,        \* the version-control state of the project
    pc,         \* the awaited step of the operation in flight, or "idle"
    call,       \* the last operation started, its input, and the manifest it found
    loc,        \* locals of the operation in flight
    log,        \* the external effects the last operation attempted, in order
    result,     \* the value the last operation returned
    ncalls      \* operations started so far

versionVars == <<verIn, verOut>>
planVars == <<snapshot, plan, prevPlan>>
pipeVars == <<build, manifest, backupDir, backedUp, clock, git, pc, call, loc, log, result, ncalls>>
vars == <<verIn, verOut, snapshot, plan, prevPlan, build, manifest, backupDir, backedUp,
          clock, git, pc, call, loc, log, result, ncalls>>

----------------------------------------------------------------------------
(* Bounds *)

MaxComp == 1        \* largest major/minor/patch number in an input version
MaxToks == 2        \* version-like substrings in one patchedVersions string
MaxEntries == 3     \* vulnerabilities plus outdated packages in one snapshot
MaxStamp == 1       \* distinct (Date.now(), Math.random()) draws for proposal ids
MaxClock == 1       \* readings of Date.now() the project lives through
MaxCalls == 2       \* pipeline operations started against the project

----------------------------------------------------------------------------
(* Version strings.                                                        *)
(* kind "plain"  MAJOR.MINOR.PATCH                                         *)
(*      "pre"    MAJOR.MINOR.PATCH-beta                                    *)
(*      "lz"     0MAJOR.MINOR.PATCH : numeric, but no valid semver         *)
(*      "junk"   a string with no version in it, such as "unknown"         *)
(*      "null"   null                                                      *)

Ver(k, a, b, c) == [kind |-> k, maj |-> a, min |-> b, pat |-> c]
Plain(a, b, c) == Ver("plain", a, b, c)
Junk == Ver("junk", 0, 0, 0)
Null == Ver("null", 0, 0, 0)

Comps == 0..MaxComp
PlainVersions == {Plain(a, b, c) : a \in Comps, b \in Comps, c \in Comps}
PreVersions == {Ver("pre", a, b, 0) : a \in Comps, b \in Comps}
LzVersions == {Ver("lz", a, 0, 0) : a \in Comps}
VersionLike == PlainVersions \cup PreVersions \cup LzVersions
VersionStrings == VersionLike \cup {Junk}

\* new SemVer(version) throws "Invalid Version" unless the string is a semver
SemverValid(v) == v.kind \in {"plain", "pre"}

\* SemVer.compare: main part first, then a prerelease sorts before its release
SemverCompare(a, b) ==
    IF a.maj # b.maj THEN (IF a.maj < b.maj THEN -1 ELSE 1)
    ELSE IF a.min # b.min THEN (IF a.min < b.min THEN -1 ELSE 1)
    ELSE IF a.pat # b.pat THEN (IF a.pat < b.pat THEN -1 ELSE 1)
    ELSE IF a.kind = b.kind THEN 0
    ELSE IF a.kind = "pre" THEN -1 ELSE 1

SemverThrows(a, b) == ~SemverValid(a) \/ ~SemverValid(b)
SemverGt(a, b) == SemverCompare(a, b) > 0
SemverLte(a, b) == SemverCompare(a, b) <= 0

\* semver.inc(v, "patch"): a prerelease goes to its release, else patch + 1
SemverIncPatch(v) ==
    IF v.kind = "pre" THEN Plain(v.maj, v.min, v.pat)
    ELSE Plain(v.maj, v.min, v.pat + 1)

----------------------------------------------------------------------------
(* patchedVersions as it arrives in the snapshot.                          *)
(* form "null"    null or undefined                                        *)
(*      "other"   neither a string nor an array                            *)
(*      "string"  a string; blank = it is ""; toks = the version-like      *)
(*                substrings in it, left to right                          *)
(*      "array"   an array of strings, one version-like string each;       *)
(*                blank = it is []                                         *)

Range(f, bl, ts) == [form |-> f, blank |-> bl, toks |-> ts]

TokSeqs(n) == UNION {[1..k -> VersionLike] : k \in 0..n}

PatchedRanges ==
    {Range("null", TRUE, <<>>), Range("other", FALSE, <<>>),
     Range("string", TRUE, <<>>), Range("array", TRUE, <<>>)}
    \cup {Range(f, FALSE, ts) : f \in {"string", "array"}, ts \in TokSeqs(MaxToks)}

\* patchedVersions.match(/\d+\.\d+\.\d+/g): the digits of every occurrence,
\* without what follows them
RegexMatch(tok) == IF tok.kind = "pre" THEN Plain(tok.maj, tok.min, tok.pat) ELSE tok
VersionMatches(toks) == [i \in 1..Len(toks) |-> RegexMatch(toks[i])]

RECURSIVE HighestFrom(_, _, _)
HighestFrom(matches, i, bestVersion) ==
    IF i > Len(matches) THEN bestVersion
    ELSE HighestFrom(matches, i + 1,
            IF ~SemverThrows(matches[i], bestVersion) /\ SemverGt(matches[i], bestVersion)
            THEN matches[i] ELSE bestVersion)

BestVersion(matches) == HighestFrom(matches, 1, matches[1])

NotNewerThanCurrent(bestVersion, currentVersion) ==
    IF ~SemverThrows(bestVersion, currentVersion) /\ SemverLte(bestVersion, currentVersion)
    THEN SemverIncPatch(currentVersion)
    ELSE bestVersion

extractTargetVersion(patchedVersionsIn, currentVersion) ==
    LET patchedVersions ==
            IF patchedVersionsIn.form = "array"
            THEN [patchedVersionsIn EXCEPT !.form = "string"]
            ELSE patchedVersionsIn
    IN  IF patchedVersions.form # "string" \/ patchedVersions.blank THEN Null
        ELSE LET versionMatches == VersionMatches(patchedVersions.toks)
             IN  IF Len(versionMatches) = 0
                 THEN (IF SemverValid(currentVersion)
                       THEN SemverIncPatch(currentVersion) ELSE Null)
                 ELSE NotNewerThanCurrent(BestVersion(versionMatches), currentVersion)

----------------------------------------------------------------------------
(* SpecVersion *)

NoCall == [op |-> "none"]

IdleVersion == verIn = NoCall /\ verOut = NoCall
IdlePlan == snapshot = NoCall /\ plan = NoCall /\ prevPlan = NoCall
IdlePipe ==
    /\ build = "none" /\ manifest = NoCall /\ backupDir = NoCall /\ backedUp = NoCall
    /\ clock = 0
    /\ git = NoCall /\ pc = NoCall /\ call = NoCall /\ loc = NoCall
    /\ log = NoCall /\ result = NoCall /\ ncalls = 0

InitVersion ==
    /\ \E pv \in PatchedRanges, cv \in VersionStrings :
          verIn = [op |-> "extractTargetVersion", patchedVersions |-> pv,
                   currentVersion |-> cv]
    /\ verOut = NoCall
    /\ IdlePlan /\ IdlePipe

ExtractTargetVersion ==
    /\ verIn.op = "extractTargetVersion"
    /\ verOut = NoCall
    /\ verOut' = [op |-> "extractTargetVersion",
                  target |-> extractTargetVersion(verIn.patchedVersions,
                                                  verIn.currentVersion)]
    /\ UNCHANGED <<verIn, planVars, pipeVars>>

NextVersion == ExtractTargetVersion

SpecVersion == InitVersion /\ [][NextVersion]_vars

----------------------------------------------------------------------------
(* semver.diff and the planner's two classifiers *)

\* semver.diff(v1, v2); "null" when the versions are equal. It throws on an
\* invalid version, which SemverThrows tells.
SemverDiff(v1, v2) ==
    LET comparison == SemverCompare(v1, v2)
        high == IF comparison > 0 THEN v1 ELSE v2
        low == IF comparison > 0 THEN v2 ELSE v1
        highHasPre == high.kind = "pre"
        lowHasPre == low.kind = "pre"
        sameMain == low.maj = high.maj /\ low.min = high.min /\ low.pat = high.pat
        prefix == IF highHasPre THEN "pre" ELSE ""
    IN  IF comparison = 0 THEN "null"
        ELSE IF lowHasPre /\ ~highHasPre /\ low.pat = 0 /\ low.min = 0 THEN "major"
        ELSE IF lowHasPre /\ ~highHasPre /\ sameMain
             THEN (IF low.min # 0 /\ low.pat = 0 THEN "minor" ELSE "patch")
        ELSE IF v1.maj # v2.maj THEN prefix \o "major"
        ELSE IF v1.min # v2.min THEN prefix \o "minor"
        ELSE IF v1.pat # v2.pat THEN prefix \o "patch"
        ELSE "prerelease"

WithoutFolding(from, to) ==
    IF SemverThrows(from, to) THEN "patch"
    ELSE LET diff == SemverDiff(from, to)
         IN  IF diff = "major" THEN "major"
             ELSE IF diff = "minor" THEN "minor"
             ELSE "patch"

getUpgradeType(from, to) ==
    IF SemverThrows(from, to) THEN "patch"
    ELSE LET diff == SemverDiff(from, to)
         IN  IF diff \in {"major", "premajor"} THEN "major"
             ELSE IF diff \in {"minor", "preminor"} THEN "minor"
             ELSE "patch"

\* getUpgradeType applied to one pair of version strings
InitType ==
    /\ \E from \in VersionStrings, to \in VersionStrings :
          verIn = [op |-> "getUpgradeType", from |-> from, to |-> to]
    /\ verOut = NoCall
    /\ IdlePlan /\ IdlePipe

GetUpgradeType ==
    /\ verIn.op = "getUpgradeType"
    /\ verOut = NoCall
    /\ verOut' = [op |-> "getUpgradeType", type |-> getUpgradeType(verIn.from, verIn.to)]
    /\ UNCHANGED <<verIn, planVars, pipeVars>>

NextType == GetUpgradeType

SpecType == InitType /\ [][NextType]_vars

Strategies == {"conservative", "balanced", "aggressive"}

StrategyAllows(diff, strategy) ==
    CASE strategy = "conservative" -> diff = "patch"
      [] strategy = "balanced" -> diff = "patch" \/ diff = "minor"
      [] strategy = "aggressive" -> TRUE
      [] OTHER -> FALSE

\* "throw" when semver.diff throws, else the boolean the switch returns
shouldIncludeUpgrade(currentVersion, latestVersion, strategy) ==
    IF SemverThrows(currentVersion, latestVersion) THEN "throw"
    ELSE IF StrategyAllows(SemverDiff(currentVersion, latestVersion), strategy)
         THEN "yes" ELSE "no"

----------------------------------------------------------------------------
(* suggestUpgrades *)

Pkgs == {"lodash", "express"}

ProposalId(packageName, stamp) == [package |-> packageName, stamp |-> stamp]

Proposal(id, packageName, from, to, type, fixes) ==
    [id |-> id, package |-> packageName, from |-> from, to |-> to,
     type |-> type, fixes |-> fixes]

TargetUsable(targetVersion, currentVersion) ==
    targetVersion # Null /\ targetVersion # currentVersion

\* the loop over auditResult.vulnerabilities
RECURSIVE VulnLoop(_, _, _, _)
VulnLoop(vulnerabilities, i, proposals, stamp) ==
    IF i > Len(vulnerabilities) THEN proposals
    ELSE LET vuln == vulnerabilities[i]
             targetVersion == extractTargetVersion(vuln.patchedVersions, vuln.currentVersion)
         IN  VulnLoop(vulnerabilities, i + 1,
                IF TargetUsable(targetVersion, vuln.currentVersion)
                THEN Append(proposals,
                        Proposal(ProposalId(vuln.package, stamp), vuln.package,
                                 vuln.currentVersion, targetVersion,
                                 getUpgradeType(vuln.currentVersion, targetVersion),
                                 <<vuln.id>>))
                ELSE proposals,
                stamp)

AlreadyProposed(proposals, name) ==
    \E k \in 1..Len(proposals) : proposals[k].package = name

OutdatedTarget(outdated, strategy) ==
    IF strategy = "conservative" THEN outdated.wanted ELSE outdated.latest

\* the loop over auditResult.outdated; thrown = shouldIncludeUpgrade threw
RECURSIVE OutdatedLoop(_, _, _, _, _)
OutdatedLoop(outdatedList, i, proposals, strategy, stamp) ==
    IF i > Len(outdatedList) THEN [thrown |-> FALSE, proposals |-> proposals]
    ELSE LET outdated == outdatedList[i]
             include == shouldIncludeUpgrade(outdated.current, outdated.latest, strategy)
         IN  IF AlreadyProposed(proposals, outdated.name)
             THEN OutdatedLoop(outdatedList, i + 1, proposals, strategy, stamp)
             ELSE IF include = "throw" THEN [thrown |-> TRUE, proposals |-> proposals]
             ELSE IF include = "no"
             THEN OutdatedLoop(outdatedList, i + 1, proposals, strategy, stamp)
             ELSE OutdatedLoop(outdatedList, i + 1,
                    Append(proposals,
                        Proposal(ProposalId(outdated.name, stamp), outdated.name,
                                 outdated.current, OutdatedTarget(outdated, strategy),
                                 getUpgradeType(outdated.current, outdated.latest),
                                 <<>>)),
                    strategy, stamp)

HasFixes(p) == Len(p.fixes) > 0

Reversed(seq) == [k \in 1..Len(seq) |-> seq[Len(seq) + 1 - k]]

TieBrokenByRandomId(proposals) ==
    LET fixing == SelectSeq(proposals, HasFixes)
        others == SelectSeq(proposals, LAMBDA p : ~HasFixes(p))
        odd == proposals # <<>> /\ proposals[1].id.stamp % 2 = 1
    IN  IF odd THEN Reversed(fixing) \o Reversed(others) ELSE fixing \o others

FixesSortedLast(proposals) ==
    SelectSeq(proposals, LAMBDA p : ~HasFixes(p)) \o SelectSeq(proposals, HasFixes)

\* proposals.sort(...): Array.prototype.sort is stable
SortProposals(proposals) ==
    SelectSeq(proposals, HasFixes) \o SelectSeq(proposals, LAMBDA p : ~HasFixes(p))

suggestUpgrades(auditResult, strategy, stamp) ==
    IF ~auditResult.parses
    THEN [op |-> "suggestUpgrades", strategy |-> strategy, status |-> "thrown",
          proposals |-> <<>>]
    ELSE LET afterVulns == VulnLoop(auditResult.vulnerabilities, 1, <<>>, stamp)
             afterOutdated == OutdatedLoop(auditResult.outdated, 1, afterVulns, strategy, stamp)
         IN  IF afterOutdated.thrown
             THEN [op |-> "suggestUpgrades", strategy |-> strategy, status |-> "thrown",
                   proposals |-> <<>>]
             ELSE [op |-> "suggestUpgrades", strategy |-> strategy, status |-> "returned",
                   proposals |-> SortProposals(afterOutdated.proposals)]

----------------------------------------------------------------------------
(* SpecPlan: the snapshots handed to the planner *)

V100 == Plain(1, 0, 0)
V101 == Plain(1, 0, 1)
V110 == Plain(1, 1, 0)
V200 == Plain(2, 0, 0)

AtLeast(v) == Range("string", FALSE, <<v>>)

\* (currentVersion, patchedVersions) pairs of a vulnerability record
VulnCases ==
    {<<V100, AtLeast(V101)>>, <<V100, AtLeast(V200)>>,
     <<V100, Range("string", TRUE, <<>>)>>, <<Junk, AtLeast(V110)>>}

\* (current, wanted, latest) triples of an outdated record: wanted is the
\* highest version the range of package.json admits and latest is the one the
\* registry tags latest, so that wanted may lie on either side of latest
OutdatedCases ==
    {<<V100, w, V101>> : w \in {V100, V101, V200}}
    \cup {<<V100, V101, l>> : l \in {V110, V200}}
    \cup {<<Junk, Junk, Junk>>}

VulnBodies == {[package |-> p, currentVersion |-> c[1], patchedVersions |-> c[2]] :
                  p \in Pkgs, c \in VulnCases}
Outdateds == {[name |-> p, current |-> c[1], wanted |-> c[2], latest |-> c[3]] :
                  p \in Pkgs, c \in OutdatedCases}

\* advisory ids are the positions in the list
WithIds(bodies) ==
    [i \in 1..Len(bodies) |->
        [id |-> i, package |-> bodies[i].package,
         currentVersion |-> bodies[i].currentVersion,
         patchedVersions |-> bodies[i].patchedVersions]]

Snapshot(parses, vs, os) ==
    [op |-> "snapshot", parses |-> parses, vulnerabilities |-> WithIds(vs),
     outdated |-> os]

InitPlan ==
    /\ \/ snapshot = Snapshot(FALSE, <<>>, <<>>)
       \/ \E nv \in 0..MaxEntries : \E no \in 0..(MaxEntries - nv) :
             \E vs \in [1..nv -> VulnBodies], os \in [1..no -> Outdateds] :
                snapshot = Snapshot(TRUE, vs, os)
    /\ plan = NoCall
    /\ prevPlan = NoCall
    /\ IdleVersion /\ IdlePipe

SuggestUpgrades(strategy, stamp) ==
    /\ snapshot # NoCall
    /\ plan' = suggestUpgrades(snapshot, strategy, stamp)
    /\ UNCHANGED <<snapshot, prevPlan, versionVars, pipeVars>>

NextPlan == \E strategy \in Strategies, stamp \in 0..MaxStamp : SuggestUpgrades(strategy, stamp)

SpecPlan == InitPlan /\ [][NextPlan]_vars

\* SpecReplan: the caller asks for a plan and then asks again with the same
\* snapshot and strategy
PlanOnce(strategy, stamp) ==
    /\ plan = NoCall
    /\ plan' = suggestUpgrades(snapshot, strategy, stamp)
    /\ UNCHANGED <<snapshot, prevPlan, versionVars, pipeVars>>

PlanAgain(stamp) ==
    /\ plan # NoCall
    /\ prevPlan = NoCall
    /\ prevPlan' = plan
    /\ plan' = suggestUpgrades(snapshot, plan.strategy, stamp)
    /\ UNCHANGED <<snapshot, versionVars, pipeVars>>

NextReplan ==
    \/ \E strategy \in Strategies, stamp \in 0..MaxStamp : PlanOnce(strategy, stamp)
    \/ \E stamp \in 0..MaxStamp : PlanAgain(stamp)

SpecReplan == InitPlan /\ [][NextReplan]_vars

----------------------------------------------------------------------------
(* The project directory *)

PipeVersions == {"1.0.0", "2.0.0"}
Declared == PipeVersions \cup {"absent"}

\* package.json: fmt tells whether the bytes are what JSON.stringify(x, null, 2)
\* writes or the layout the author chose
Content(valid, fmt, deps, dev) ==
    [valid |-> valid, fmt |-> fmt, dependencies |-> deps, devDependencies |-> dev]

Nothing == [p \in Pkgs |-> "absent"]
Only(name, version) == [p \in Pkgs |-> IF p = name THEN version ELSE "absent"]

InitManifests ==
    {Content(TRUE, "custom", Only("lodash", "1.0.0"), Only("express", "1.0.0")),
     Content(TRUE, "custom", Only("lodash", "1.0.0"), Nothing),
     Content(TRUE, "stringify2", Only("lodash", "1.0.0"), Only("lodash", "1.0.0")),
     Content(FALSE, "custom", Nothing, Nothing)}

Builds == {"src/tools", "unnamed"}

\* Date.now() is Epoch + clock: the readings the project lives through all have
\* the same number of decimal digits, as the 13-digit readings of today have
Epoch == 11
DateNow == Epoch + clock

\* a backup left in .dialectic-backup by an earlier session
EarlierBackup ==
    [name |-> Epoch - 1, created |-> 0,
     content |-> Content(TRUE, "custom", Only("lodash", "2.0.0"), Nothing)]

NoLocals == [backupName |-> 0, packageJson |-> NoCall, latestBackup |-> 0,
             gitSuccess |-> FALSE]

Init ==
    /\ build \in Builds
    /\ manifest \in InitManifests
    /\ backupDir \in {[exists |-> FALSE, files |-> {}], [exists |-> TRUE, files |-> {}],
                      [exists |-> TRUE, files |-> {EarlierBackup}]}
    /\ backedUp = NoCall
    /\ clock = 0
    /\ git \in {[repo |-> FALSE, head |-> NoCall], [repo |-> TRUE, head |-> manifest]}
    /\ pc = "idle"
    /\ call = NoCall
    /\ loc = NoLocals
    /\ log = <<>>
    /\ result = NoCall
    /\ ncalls = 0
    /\ IdleVersion /\ IdlePlan

\* Date.now() is read when createBackup is entered, right after a call has
\* started: what the clock does while an operation runs is never looked at
Tick ==
    /\ pc = "idle"
    /\ clock < MaxClock
    /\ clock' = clock + 1
    /\ UNCHANGED <<versionVars, planVars, build, backedUp, manifest, backupDir, git, pc, call,
                   loc, log, result, ncalls>>

Outcome(ok) == IF ok THEN "ok" ELSE "failed"

Logged(step, outcome) == Append(log, <<step, outcome>>)

Begin(c, firstStep) ==
    /\ pc = "idle"
    /\ ncalls < MaxCalls
    /\ ncalls' = ncalls + 1
    /\ call' = c
    /\ loc' = [NoLocals EXCEPT !.backupName = DateNow]
    /\ log' = <<>>
    /\ result' = NoCall
    /\ pc' = firstStep

----------------------------------------------------------------------------
(* applyUpgrade *)

UpgradeResult(success, message) ==
    [op |-> "applyUpgrade", success |-> success, package |-> call.package,
     version |-> call.version, message |-> message]

NotFoundMessage == <<"Failed to upgrade", "Package not found in package.json">>

FailureReportedAsSuccess(errorMessage) ==
    /\ result' = UpgradeResult(TRUE, <<"Successfully upgraded">>)
    /\ pc' = "idle"

\* the catch block of applyUpgrade
UpgradeFailed(errorMessage) ==
    /\ result' = UpgradeResult(FALSE, <<"Failed to upgrade", errorMessage>>)
    /\ pc' = "idle"

UpgradeSucceeded ==
    /\ result' = UpgradeResult(TRUE, <<"Successfully upgraded">>)
    /\ pc' = "idle"

HasMkdir == build = "unnamed"
HasSkipInstall == build = "unnamed"

BackupSkipped(shouldBackup) == "updatePackageJson.readFile"

\* where the try block of applyUpgrade starts
FirstUpgradeStep(shouldBackup) ==
    IF ~shouldBackup THEN "updatePackageJson.readFile"
    ELSE IF HasMkdir THEN "createBackup.mkdir" ELSE "createBackup.copyFile"

\* detectPackageManager(projectPath): the first lock file that access() finds,
\* every failure of access() being swallowed, and npm when there is none
detectPackageManager(accessible) ==
    IF "pnpm-lock.yaml" \in accessible THEN "pnpm"
    ELSE IF "package-lock.json" \in accessible THEN "npm"
    ELSE IF "yarn.lock" \in accessible THEN "yarn"
    ELSE "npm"

RequestedPMs == {"auto", "pnpm"}
LockFileCases == {{"yarn.lock"}}

ApplyUpgradeStart(packageName, version, requestedPM, accessible, shouldBackup, skipInstall) ==
    /\ Begin([op |-> "applyUpgrade", package |-> packageName, version |-> version,
              packageManager |-> IF requestedPM = "auto"
                                 THEN detectPackageManager(accessible)
                                 ELSE requestedPM,
              createBackup |-> shouldBackup, skipInstall |-> skipInstall,
              manifestAtCall |-> manifest],
             FirstUpgradeStep(shouldBackup))
    /\ backedUp' = NoCall
    /\ UNCHANGED <<versionVars, planVars, build, manifest, backupDir, clock, git>>

CreateBackupMkdir(ok) ==
    /\ pc = "createBackup.mkdir"
    /\ log' = Logged("mkdir", Outcome(ok))
    /\ IF ok
       THEN /\ backupDir' = [backupDir EXCEPT !.exists = TRUE]
            /\ pc' = "createBackup.copyFile"
            /\ UNCHANGED result
       ELSE /\ UpgradeFailed("Could not create backup before upgrade")
            /\ UNCHANGED backupDir
    /\ UNCHANGED <<versionVars, planVars, build, backedUp, manifest, clock, git, call, loc,
                   ncalls>>

\* copyFile(src, dest): dest is replaced when a file of that name exists
CopiedInto(files, name, content) ==
    {f \in files : f.name # name}
        \cup {[name |-> name, content |-> content, created |-> ncalls]}

ProceedWithoutBackup(ok) == "updatePackageJson.readFile"

AfterBackupCopy(ok) == IF ok THEN "updatePackageJson.readFile" ELSE "throw"

CreateBackupCopyFile(ok) ==
    /\ pc = "createBackup.copyFile"
    /\ ok => backupDir.exists
    /\ log' = Logged("copyFile to backup", Outcome(ok))
    /\ backupDir' = IF ok
                    THEN [backupDir EXCEPT !.files = CopiedInto(@, loc.backupName, manifest)]
                    ELSE backupDir
    /\ IF AfterBackupCopy(ok) = "throw"
       THEN UpgradeFailed("Could not create backup before upgrade")
       ELSE pc' = AfterBackupCopy(ok) /\ UNCHANGED result
    /\ backedUp' = IF ok THEN manifest ELSE backedUp
    /\ UNCHANGED <<versionVars, planVars, build, manifest, clock, git, call, loc, ncalls>>

AddToDependencies(packageJson, packageName) == "dependencies"

\* the section of packageJson that updatePackageJson assigns to
SectionOf(packageJson, packageName) ==
    IF packageJson.dependencies[packageName] # "absent" THEN "dependencies"
    ELSE IF packageJson.devDependencies[packageName] # "absent" THEN "devDependencies"
    ELSE "none"

WithVersion(packageJson, packageName, version) ==
    LET section == SectionOf(packageJson, packageName)
    IN  IF section = "dependencies"
        THEN [packageJson EXCEPT !.dependencies[packageName] = version]
        ELSE [packageJson EXCEPT !.devDependencies[packageName] = version]

UpdatePackageJsonRead(ok) ==
    /\ pc = "updatePackageJson.readFile"
    /\ log' = Logged("readFile manifest", Outcome(ok))
    /\ IF ~ok THEN UpgradeFailed("readFile error") /\ UNCHANGED loc
       ELSE IF ~manifest.valid THEN UpgradeFailed("JSON.parse error") /\ UNCHANGED loc
       ELSE IF SectionOf(manifest, call.package) = "none"
       THEN UpgradeFailed("Package not found in package.json") /\ UNCHANGED loc
       ELSE /\ loc' = [loc EXCEPT !.packageJson =
                            WithVersion(manifest, call.package, call.version)]
            /\ pc' = "updatePackageJson.writeFile"
            /\ UNCHANGED result
    /\ UNCHANGED <<versionVars, planVars, build, backedUp, manifest, backupDir, clock, git, call,
                   ncalls>>

UpdatePackageJsonWrite(ok) ==
    /\ pc = "updatePackageJson.writeFile"
    /\ log' = Logged("writeFile manifest", Outcome(ok))
    /\ manifest' = IF ok THEN [loc.packageJson EXCEPT !.fmt = "stringify2"] ELSE manifest
    /\ IF ~ok THEN UpgradeFailed("writeFile error")
       ELSE IF HasSkipInstall /\ call.skipInstall THEN UpgradeSucceeded
       ELSE pc' = "installDependencies" /\ UNCHANGED result
    /\ UNCHANGED <<versionVars, planVars, build, backedUp, backupDir, clock, git, call, loc, ncalls>>

InstallOutcomes == {"ok", "failed", "timedOut"}

InstallError(outcome) ==
    IF outcome = "timedOut" /\ build = "unnamed"
    THEN "Install timed out. Please run manually"
    ELSE "Dependency installation failed"

RestoredOnInstallFailure(outcome) ==
    IF outcome = "ok" THEN manifest ELSE call.manifestAtCall

\* package.json once installDependencies has settled: neither it nor the catch
\* block of applyUpgrade writes the file
ManifestAfterInstall(outcome) == manifest

InstallDependencies(outcome) ==
    /\ pc = "installDependencies"
    /\ log' = Logged("install", outcome)
    /\ manifest' = ManifestAfterInstall(outcome)
    /\ IF outcome = "ok" THEN UpgradeSucceeded ELSE UpgradeFailed(InstallError(outcome))
    /\ UNCHANGED <<versionVars, planVars, build, backedUp, backupDir, clock, git, call,
                   loc, ncalls>>

----------------------------------------------------------------------------
(* rollbackChanges *)

RollbackResult(success, usedMethod, message) ==
    [op |-> "rollbackChanges", success |-> success, method |-> usedMethod,
     message |-> message]

RollbackStart(method) ==
    /\ Begin([op |-> "rollbackChanges", method |-> method, manifestAtCall |-> manifest],
             IF method = "backup" THEN "rollbackViaBackup.access"
             ELSE "rollbackViaGit.status")
    /\ UNCHANGED <<versionVars, planVars, build, backedUp, manifest, backupDir, clock, git>>

AlwaysTriesBackup(method, gitSuccess) == method = "auto"

FallsBackWhateverMethod(method, gitSuccess) == ~gitSuccess

FallsBackToBackup(method, gitSuccess) == method = "auto" /\ ~gitSuccess

\* rollbackViaGit has returned {success, message}
GitReturned(success, message) ==
    IF FallsBackToBackup(call.method, success)
    THEN /\ pc' = "rollbackViaBackup.access"
         /\ loc' = [loc EXCEPT !.gitSuccess = success]
         /\ UNCHANGED result
    ELSE /\ result' = RollbackResult(success, "git", message)
         /\ pc' = "idle"
         /\ loc' = [loc EXCEPT !.gitSuccess = success]

RollbackViaGitStatus(ok) ==
    /\ pc = "rollbackViaGit.status"
    /\ ok => git.repo
    /\ log' = Logged("git status", Outcome(ok))
    /\ IF ok
       THEN pc' = "rollbackViaGit.checkout" /\ UNCHANGED <<result, loc>>
       ELSE GitReturned(FALSE, "Git rollback failed")
    /\ UNCHANGED <<versionVars, planVars, build, backedUp, manifest, backupDir, clock, git, call,
                   ncalls>>

\* git checkout HEAD package.json, then the three lockfile checkouts, which
\* cannot fail the method (reject: false inside try/catch)
RollbackViaGitCheckout(ok) ==
    /\ pc = "rollbackViaGit.checkout"
    /\ ok => git.repo
    /\ log' = IF ok
              THEN Append(Logged("git checkout manifest", "ok"),
                          <<"git checkout lockfiles", "ok">>)
              ELSE Logged("git checkout manifest", "failed")
    /\ manifest' = IF ok THEN git.head ELSE manifest
    /\ IF ok THEN GitReturned(TRUE, "Rolled back using Git")
       ELSE GitReturned(FALSE, "Git rollback failed")
    /\ UNCHANGED <<versionVars, planVars, build, backedUp, backupDir, clock, git, call, ncalls>>

KeepsGitFailure(success, message) ==
    /\ result' = RollbackResult(success, IF success THEN "backup" ELSE "git",
                                IF success THEN message ELSE "Git rollback failed")
    /\ pc' = "idle"

\* rollbackViaBackup has returned {success, message}
\* execa("git", ...) is called without a timeout option: when the git process
\* never exits on its own the awaited promise never settles and rollbackViaGit
\* stays at that await
RollbackViaGitNeverSettles ==
    /\ pc \in {"rollbackViaGit.status", "rollbackViaGit.checkout"}
    /\ git.repo
    /\ log' = Logged(IF pc = "rollbackViaGit.status" THEN "git status"
                     ELSE "git checkout manifest", "never settles")
    /\ pc' = "blocked"
    /\ UNCHANGED <<versionVars, planVars, build, backedUp, manifest, backupDir, clock, git, call,
                   loc, result, ncalls>>

BackupReturned(success, message) ==
    /\ result' = RollbackResult(success, "backup", message)
    /\ pc' = "idle"

RollbackViaBackupAccess(ok) ==
    /\ pc = "rollbackViaBackup.access"
    /\ ok => backupDir.exists
    /\ log' = Logged("access backup area", Outcome(ok))
    /\ IF ok THEN pc' = "rollbackViaBackup.readdir" /\ UNCHANGED result
       ELSE BackupReturned(FALSE, "Backup rollback failed")
    /\ UNCHANGED <<versionVars, planVars, build, backedUp, manifest, backupDir, clock, git, call,
                   loc, ncalls>>

BackupNames == {f.name : f \in backupDir.files}

\* String(n): the decimal digits of a reading of Date.now()
RECURSIVE Digits(_)
Digits(n) == IF n < 10 THEN <<n>> ELSE Append(Digits(n \div 10), n % 10)

\* the order of Array.prototype.sort() on "package.json.<a>.bak" and
\* "package.json.<b>.bak": code units left to right, where the "." that ends
\* the shorter run of digits sorts before any digit
RECURSIVE DigitsBefore(_, _, _)
DigitsBefore(a, b, i) ==
    IF i > Len(a) THEN i <= Len(b)
    ELSE IF i > Len(b) THEN FALSE
    ELSE IF a[i] # b[i] THEN a[i] < b[i]
    ELSE DigitsBefore(a, b, i + 1)

SortsBefore(a, b) == DigitsBefore(Digits(a), Digits(b), 1)

OldestBackup(names) == CHOOSE n \in names : \A m \in names : m = n \/ SortsBefore(n, m)

\* backupFiles.sort().reverse()[0]
LatestBackup(names) == CHOOSE n \in names : \A m \in names : m = n \/ SortsBefore(m, n)

RollbackViaBackupReaddir(ok) ==
    /\ pc = "rollbackViaBackup.readdir"
    /\ log' = Logged("readdir backup area", Outcome(ok))
    /\ IF ~ok THEN BackupReturned(FALSE, "Backup rollback failed") /\ UNCHANGED loc
       ELSE IF BackupNames = {}
       THEN BackupReturned(FALSE, "No backup files found") /\ UNCHANGED loc
       ELSE /\ loc' = [loc EXCEPT !.latestBackup = LatestBackup(BackupNames)]
            /\ pc' = "rollbackViaBackup.copyFile"
            /\ UNCHANGED result
    /\ UNCHANGED <<versionVars, planVars, build, backedUp, manifest, backupDir, clock, git, call,
                   ncalls>>

RestoredReformatted(name) ==
    [(CHOOSE f \in backupDir.files : f.name = name).content EXCEPT !.fmt = "stringify2"]

\* the bytes of the backup file of that name, which copyFile writes over package.json
BackupContent(name) == (CHOOSE f \in backupDir.files : f.name = name).content

RollbackViaBackupCopyFile(ok) ==
    /\ pc = "rollbackViaBackup.copyFile"
    /\ log' = Logged("copyFile from backup", Outcome(ok))
    /\ manifest' = IF ok THEN BackupContent(loc.latestBackup) ELSE manifest
    /\ IF ok THEN pc' = "rollbackViaBackup.install" /\ UNCHANGED result
       ELSE BackupReturned(FALSE, "Backup rollback failed")
    /\ UNCHANGED <<versionVars, planVars, build, backedUp, backupDir, clock, git, call, loc, ncalls>>

UndoneOnReinstallFailure(outcome) ==
    IF outcome = "ok" THEN manifest ELSE call.manifestAtCall

\* package.json once the reinstall of rollbackViaBackup has settled: the catch
\* block only builds the failure result
ManifestAfterReinstall(outcome) == manifest

RollbackViaBackupInstall(outcome) ==
    /\ pc = "rollbackViaBackup.install"
    /\ log' = Logged("reinstall", outcome)
    /\ manifest' = ManifestAfterReinstall(outcome)
    /\ IF outcome = "ok" THEN BackupReturned(TRUE, "Rolled back using backup file")
       ELSE BackupReturned(FALSE, "Backup rollback failed")
    /\ UNCHANGED <<versionVars, planVars, build, backedUp, backupDir, clock, git, call,
                   loc, ncalls>>

----------------------------------------------------------------------------
(* runTests *)

\* what the child process does
ProcessOutcomes == {"exit0", "exitNonZero", "timedOut", "killed", "spawnThrew"}

Undefined == [defined |-> FALSE, value |-> 0]
Number(n) == [defined |-> TRUE, value |-> n]

\* execa(file, args, {timeout, reject}): the promise resolves with the result or
\* the error object unless reject is left true; only a throw of spawn itself
\* rejects whatever the option
Execa(outcome, reject) ==
    [settled |-> IF outcome = "exit0" THEN "resolved"
                 ELSE IF outcome = "spawnThrew" \/ reject THEN "rejected"
                 ELSE "resolved",
     exitCode |-> CASE outcome = "exit0" -> Number(0)
                    [] outcome = "exitNonZero" -> Number(1)
                    [] OTHER -> Undefined,
     timedOut |-> outcome = "timedOut",
     killed |-> outcome \in {"timedOut", "killed"}]

\* value || fallback on a number that may be undefined
OrElse(value, fallback) ==
    IF value.defined /\ value.value # 0 THEN value.value ELSE fallback

TestOutputs == {"Tests: 1 failed, 2 passed, 4 total", "no summary line"}

parseTestOutput(output) ==
    IF output = "Tests: 1 failed, 2 passed, 4 total"
    THEN [passed |-> 2, failed |-> 1, total |-> 4]
    ELSE [passed |-> 0, failed |-> 0, total |-> 0]

TestResult(counts, exitCode, stderr) ==
    [op |-> "runTests", passed |-> counts.passed, failed |-> counts.failed,
     total |-> counts.total, exitCode |-> exitCode, stderr |-> stderr]

NoCounts == [passed |-> 0, failed |-> 0, total |-> 0]

\* detected: package.json parses and has scripts.test
RunTestsStart(customCommand, detected) ==
    /\ pc = "idle"
    /\ ncalls < MaxCalls
    /\ detected => manifest.valid
    /\ ncalls' = ncalls + 1
    /\ call' = [op |-> "runTests", customCommand |-> customCommand,
                manifestAtCall |-> manifest]
    /\ loc' = NoLocals
    /\ log' = <<>>
    /\ IF ~customCommand /\ ~detected
       THEN /\ result' = TestResult(NoCounts, -1, "No test command found")
            /\ pc' = "idle"
       ELSE /\ result' = NoCall
            /\ pc' = "runTests.execa"
    /\ UNCHANGED <<versionVars, planVars, build, backedUp, manifest, backupDir, clock, git>>

HasTimeoutBranch == build = "unnamed"

\* the catch block of runTests
TestsThrew(error) ==
    IF HasTimeoutBranch /\ error.timedOut
    THEN TestResult(NoCounts, -1, "Test execution timed out")
    ELSE TestResult(NoCounts, OrElse(error.exitCode, 1), "error.message")

TestsReturned(settlement, output) ==
    IF settlement.settled = "resolved"
    THEN TestResult(parseTestOutput(output), OrElse(settlement.exitCode, 0),
                    "result.stderr")
    ELSE TestsThrew(settlement)

RunTestsExeca(outcome, output) ==
    /\ pc = "runTests.execa"
    /\ log' = Logged("execa test", outcome)
    /\ result' = TestsReturned(Execa(outcome, FALSE), output)
    /\ pc' = "idle"
    /\ UNCHANGED <<versionVars, planVars, build, backedUp, manifest, backupDir, clock, git, call,
                   loc, ncalls>>

----------------------------------------------------------------------------
(* Spec *)

Next ==
    \/ Tick
    \/ \E packageName \in Pkgs, version \in PipeVersions,
          requestedPM \in RequestedPMs, accessible \in LockFileCases,
          shouldBackup \in BOOLEAN, skipInstall \in BOOLEAN :
            ApplyUpgradeStart(packageName, version, requestedPM, accessible,
                              shouldBackup, skipInstall)
    \/ \E ok \in BOOLEAN : CreateBackupMkdir(ok)
    \/ \E ok \in BOOLEAN : CreateBackupCopyFile(ok)
    \/ \E ok \in BOOLEAN : UpdatePackageJsonRead(ok)
    \/ \E ok \in BOOLEAN : UpdatePackageJsonWrite(ok)
    \/ \E outcome \in InstallOutcomes : InstallDependencies(outcome)
    \/ \E method \in {"git", "backup", "auto"} : RollbackStart(method)
    \/ \E ok \in BOOLEAN : RollbackViaGitStatus(ok)
    \/ \E ok \in BOOLEAN : RollbackViaGitCheckout(ok)
    \/ RollbackViaGitNeverSettles
    \/ \E ok \in BOOLEAN : RollbackViaBackupAccess(ok)
    \/ \E ok \in BOOLEAN : RollbackViaBackupReaddir(ok)
    \/ \E ok \in BOOLEAN : RollbackViaBackupCopyFile(ok)
    \/ \E outcome \in InstallOutcomes : RollbackViaBackupInstall(outcome)
    \/ \E customCommand \in BOOLEAN, detected \in BOOLEAN :
            RunTestsStart(customCommand, detected)
    \/ \E outcome \in ProcessOutcomes, output \in TestOutputs :
            RunTestsExeca(outcome, output)

Spec == Init /\ [][Next]_vars

----------------------------------------------------------------------------
(* SpecOverlap: two applyUpgrade calls in flight against one project         *)
(* directory. Nothing in the tools serializes them: each call is a chain of  *)
(* awaits, and the other call may run between any two of them. Here pc,      *)
(* call, loc, log and result hold one value per caller. The calls are made   *)
(* with createBackup = false, so that the chain starts at updatePackageJson. *)

Callers == {1, 2}

InitOverlap ==
    /\ build \in Builds
    /\ manifest \in InitManifests
    /\ backupDir = [exists |-> FALSE, files |-> {}]
    /\ backedUp = NoCall
    /\ clock = 0
    /\ git = [repo |-> FALSE, head |-> NoCall]
    /\ pc = [c \in Callers |-> "idle"]
    /\ call = [c \in Callers |-> NoCall]
    /\ loc = [c \in Callers |-> NoLocals]
    /\ log = [c \in Callers |-> <<>>]
    /\ result = [c \in Callers |-> NoCall]
    /\ ncalls = 0
    /\ IdleVersion /\ IdlePlan

OverlapResult(c, success, message) ==
    [op |-> "applyUpgrade", success |-> success, package |-> call[c].package,
     version |-> call[c].version, message |-> message]

\* caller c returns from applyUpgrade, through the catch block when failed
OverlapReturn(c, success, message) ==
    /\ result' = [result EXCEPT ![c] = OverlapResult(c, success, message)]
    /\ pc' = [pc EXCEPT ![c] = "idle"]

OverlapApplyUpgradeStart(c, packageName, version, skipInstall) ==
    /\ pc[c] = "idle"
    /\ call[c] = NoCall
    /\ ncalls' = ncalls + 1
    /\ call' = [call EXCEPT ![c] =
                  [op |-> "applyUpgrade", package |-> packageName, version |-> version,
                   packageManager |-> "npm", createBackup |-> FALSE,
                   skipInstall |-> skipInstall, manifestAtCall |-> manifest]]
    /\ pc' = [pc EXCEPT ![c] = "updatePackageJson.readFile"]
    /\ UNCHANGED <<versionVars, planVars, build, backedUp, manifest, backupDir, clock, git,
                   loc, log, result>>

OverlapUpdatePackageJsonRead(c, ok) ==
    /\ pc[c] = "updatePackageJson.readFile"
    /\ log' = [log EXCEPT ![c] = Append(@, <<"readFile manifest", Outcome(ok)>>)]
    /\ IF ~ok THEN OverlapReturn(c, FALSE, <<"Failed to upgrade", "readFile error">>)
                   /\ UNCHANGED loc
       ELSE IF ~manifest.valid
       THEN OverlapReturn(c, FALSE, <<"Failed to upgrade", "JSON.parse error">>)
            /\ UNCHANGED loc
       ELSE IF SectionOf(manifest, call[c].package) = "none"
       THEN OverlapReturn(c, FALSE, NotFoundMessage) /\ UNCHANGED loc
       ELSE /\ loc' = [loc EXCEPT ![c].packageJson =
                          WithVersion(manifest, call[c].package, call[c].version)]
            /\ pc' = [pc EXCEPT ![c] = "updatePackageJson.writeFile"]
            /\ UNCHANGED result
    /\ UNCHANGED <<versionVars, planVars, build, backedUp, manifest, backupDir, clock, git,
                   call, ncalls>>

OverlapUpdatePackageJsonWrite(c, ok) ==
    /\ pc[c] = "updatePackageJson.writeFile"
    /\ log' = [log EXCEPT ![c] = Append(@, <<"writeFile manifest", Outcome(ok)>>)]
    /\ manifest' = IF ok THEN [loc[c].packageJson EXCEPT !.fmt = "stringify2"] ELSE manifest
    /\ IF ~ok THEN OverlapReturn(c, FALSE, <<"Failed to upgrade", "writeFile error">>)
       ELSE IF HasSkipInstall /\ call[c].skipInstall
       THEN OverlapReturn(c, TRUE, <<"Successfully upgraded">>)
       ELSE pc' = [pc EXCEPT ![c] = "installDependencies"] /\ UNCHANGED result
    /\ UNCHANGED <<versionVars, planVars, build, backedUp, backupDir, clock, git, call, loc,
                   ncalls>>

OverlapInstallDependencies(c, outcome) ==
    /\ pc[c] = "installDependencies"
    /\ log' = [log EXCEPT ![c] = Append(@, <<"install", outcome>>)]
    /\ IF outcome = "ok" THEN OverlapReturn(c, TRUE, <<"Successfully upgraded">>)
       ELSE OverlapReturn(c, FALSE, <<"Failed to upgrade", InstallError(outcome)>>)
    /\ UNCHANGED <<versionVars, planVars, build, backedUp, manifest, backupDir, clock, git,
                   call, loc, ncalls>>

NextOverlap ==
    \E c \in Callers :
        \/ \E packageName \in Pkgs, version \in PipeVersions, skipInstall \in BOOLEAN :
              OverlapApplyUpgradeStart(c, packageName, version, skipInstall)
        \/ \E ok \in BOOLEAN : OverlapUpdatePackageJsonRead(c, ok)
        \/ \E ok \in BOOLEAN : OverlapUpdatePackageJsonWrite(c, ok)
        \/ \E outcome \in InstallOutcomes : OverlapInstallDependencies(c, outcome)

SpecOverlap == InitOverlap /\ [][NextOverlap]_vars

----------------------------------------------------------------------------
(* Claims about the pipeline operations *)

Attempted(step) == \E i \in 1..Len(log) : log[i][1] = step
Did(step, outcome) == \E i \in 1..Len(log) : log[i] = <<step, outcome>>

BackupMethodSteps ==
    {"access backup area", "readdir backup area", "copyFile from backup", "reinstall"}

\* C1: rollbackChanges with method auto attempts git first, and once the git
\* attempt has succeeded no step of the backup method is ever attempted and the
\* call has returned success with method git.
C1_GitSuccessSkipsBackup ==
    (call.op = "rollbackChanges" /\ call.method = "auto") =>
        /\ log # <<>> => log[1][1] = "git status"
        /\ Did("git checkout manifest", "ok") =>
              /\ \A step \in BackupMethodSteps : ~Attempted(step)
              /\ pc = "idle"
              /\ result.op = "rollbackChanges"
              /\ result.success
              /\ result.method = "git"

C1_Witness ==
    /\ call.op = "rollbackChanges" /\ call.method = "auto"
    /\ Did("git checkout manifest", "ok")
    /\ backupDir.exists /\ backupDir.files # {}
    /\ pc = "idle" /\ result.op = "rollbackChanges"
    /\ result.success /\ result.method = "git"

\* C2: when applyUpgrade was asked for a backup and the backup step fails, the
\* manifest is not rewritten, install is not invoked and the call returns
\* success = false.
C2_FailedBackupStopsUpgrade ==
    (/\ call.op = "applyUpgrade" /\ call.createBackup
     /\ (Did("copyFile to backup", "failed") \/ Did("mkdir", "failed"))) =>
        /\ ~Attempted("writeFile manifest")
        /\ ~Attempted("readFile manifest")
        /\ ~Attempted("install")
        /\ manifest = call.manifestAtCall
        /\ pc = "idle"
        /\ result.op = "applyUpgrade"
        /\ ~result.success

C2_Witness ==
    /\ call.op = "applyUpgrade" /\ call.createBackup
    /\ Did("copyFile to backup", "failed")
    /\ SectionOf(manifest, call.package) # "none"
    /\ pc = "idle" /\ result.op = "applyUpgrade" /\ ~result.success

DeclaredNowhere ==
    /\ call.op = "applyUpgrade"
    /\ call.manifestAtCall.valid
    /\ call.manifestAtCall.dependencies[call.package] = "absent"
    /\ call.manifestAtCall.devDependencies[call.package] = "absent"

----------------------------------------------------------------------------
(* Claims about the version classifier and the planner *)

MatchesOf(patchedVersions) ==
    IF patchedVersions.form \in {"string", "array"} /\ ~patchedVersions.blank
    THEN {RegexMatch(patchedVersions.toks[i]) : i \in 1..Len(patchedVersions.toks)}
    ELSE {}

\* C4: extractTargetVersion returns none or a version strictly greater than
\* currentVersion; when the highest version in the range is not strictly greater
\* than currentVersion, it returns the patch-incremented currentVersion.
C4_TargetAboveCurrent ==
    verOut.op = "extractTargetVersion" =>
        LET target == verOut.target
            currentVersion == verIn.currentVersion
            found == MatchesOf(verIn.patchedVersions)
        IN  /\ \/ target = Null
               \/ /\ SemverValid(target)
                  /\ SemverValid(currentVersion)
                  /\ SemverGt(target, currentVersion)
            /\ (/\ found # {}
                /\ SemverValid(currentVersion)
                /\ \A m \in found : SemverValid(m) /\ ~SemverGt(m, currentVersion))
               => target = SemverIncPatch(currentVersion)

Returned == plan.op = "suggestUpgrades" /\ plan.status = "returned"

ProposalsFor(name) == {k \in 1..Len(plan.proposals) : plan.proposals[k].package = name}

\* C5: no proposal returned by suggestUpgrades has to equal to from.
C5_NoNoOpProposal ==
    Returned => \A k \in 1..Len(plan.proposals) :
                    plan.proposals[k].to # plan.proposals[k].from

\* C6: one suggestUpgrades call returns at most one proposal per package, and
\* when a package has a vulnerability-sourced candidate that one is kept.
C6_OneProposalPerPackage ==
    Returned => \A name \in Pkgs :
        /\ Cardinality(ProposalsFor(name)) <= 1
        /\ (\E i \in 1..Len(snapshot.vulnerabilities) :
                /\ snapshot.vulnerabilities[i].package = name
                /\ TargetUsable(extractTargetVersion(
                        snapshot.vulnerabilities[i].patchedVersions,
                        snapshot.vulnerabilities[i].currentVersion),
                        snapshot.vulnerabilities[i].currentVersion))
           => \A k \in ProposalsFor(name) : HasFixes(plan.proposals[k])

VulnIdsOf(name) ==
    {snapshot.vulnerabilities[i].id : i \in
        {j \in 1..Len(snapshot.vulnerabilities) : snapshot.vulnerabilities[j].package = name}}

InOutdated(name) == \E i \in 1..Len(snapshot.outdated) : snapshot.outdated[i].name = name

\* C7: a package listed both in vulnerabilities and in outdated gets exactly one
\* proposal, and that proposal's fixes holds the vulnerability id.
C7_BothListsOneSecurityProposal ==
    plan.op = "suggestUpgrades" =>
        \A name \in Pkgs :
            (VulnIdsOf(name) # {} /\ InOutdated(name)) =>
                /\ plan.status = "returned"
                /\ Cardinality(ProposalsFor(name)) = 1
                /\ \A k \in ProposalsFor(name) :
                      \E f \in 1..Len(plan.proposals[k].fixes) :
                          plan.proposals[k].fixes[f] \in VulnIdsOf(name)

Tuple(p) == <<p.package, p.from, p.to, p.type, p.fixes>>
VulnSourced(proposals) ==
    LET sel == SelectSeq(proposals, HasFixes)
    IN  [k \in 1..Len(sel) |-> Tuple(sel[k])]

\* C8: every vulnerability whose target resolves to a version other than its
\* current version gets a proposal carrying its id under every strategy, and the
\* vulnerability-sourced proposals are the same under all three strategies.
C8_SecurityFixesWhateverStrategy ==
    plan.op = "suggestUpgrades" /\ snapshot.parses =>
        /\ \A i \in 1..Len(snapshot.vulnerabilities) :
              LET vuln == snapshot.vulnerabilities[i]
                  target == extractTargetVersion(vuln.patchedVersions, vuln.currentVersion)
              IN  (target # Null /\ target # vuln.currentVersion) =>
                      /\ plan.status = "returned"
                      /\ \E k \in 1..Len(plan.proposals) :
                            /\ plan.proposals[k].fixes = <<vuln.id>>
                            /\ plan.proposals[k].package = vuln.package
                            /\ plan.proposals[k].to = target
        /\ \A other \in Strategies :
              LET otherPlan == suggestUpgrades(snapshot, other, 0)
              IN  VulnSourced(otherPlan.proposals) = VulnSourced(plan.proposals)

CoveredByVuln(name) ==
    \E i \in 1..Len(snapshot.vulnerabilities) :
        LET vuln == snapshot.vulnerabilities[i]
        IN  /\ vuln.package = name
            /\ TargetUsable(extractTargetVersion(vuln.patchedVersions, vuln.currentVersion),
                            vuln.currentVersion)

OnlyEntryOfItsName(i) ==
    \A j \in 1..Len(snapshot.outdated) :
        j # i => snapshot.outdated[j].name # snapshot.outdated[i].name

Distance(outdated) == getUpgradeType(outdated.current, outdated.latest)

ShouldBeIncluded(outdated, strategy) ==
    CASE strategy = "conservative" -> Distance(outdated) = "patch"
      [] strategy = "balanced" -> Distance(outdated) \in {"patch", "minor"}
      [] OTHER -> TRUE

\* C9: an outdated package not covered by a vulnerability-sourced proposal is
\* proposed under conservative only at distance patch (target wanted), under
\* balanced only at distance patch or minor (target latest), and always under
\* aggressive (target latest).
C9_StrategyFiltering ==
    plan.op = "suggestUpgrades" /\ snapshot.parses =>
        \A i \in 1..Len(snapshot.outdated) :
            LET outdated == snapshot.outdated[i]
                mine == {k \in ProposalsFor(outdated.name) :
                            plan.proposals[k].from = outdated.current}
            IN  (~CoveredByVuln(outdated.name) /\ OnlyEntryOfItsName(i)) =>
                    IF ShouldBeIncluded(outdated, plan.strategy)
                    THEN /\ plan.status = "returned"
                         /\ \E k \in mine :
                              /\ plan.proposals[k].fixes = <<>>
                              /\ plan.proposals[k].to =
                                    (IF plan.strategy = "conservative"
                                     THEN outdated.wanted ELSE outdated.latest)
                    ELSE plan.status = "returned" => mine = {}

\* C10: a test run that exceeds its timeout, or is killed without an exit code,
\* makes runTests return a non-zero exitCode, with the timeout message when it
\* timed out.
C10_TimeoutIsExplicitFailure ==
    (/\ result.op = "runTests"
     /\ (Did("execa test", "timedOut") \/ Did("execa test", "killed"))) =>
        /\ result.exitCode # 0
        /\ Did("execa test", "timedOut") => result.stderr = "Test execution timed out"


----------------------------------------------------------------------------
(* Claims about failures of the install step *)

InstallFailed == Did("install", "failed") \/ Did("install", "timedOut")

GenericInstallFailure == <<"Failed to upgrade", "Dependency installation failed">>

\* C11: when the install step of applyUpgrade exceeds its time budget the
\* result has success = false and a message that is not the message returned
\* for the other installer failures.
C11_InstallTimeoutHasOwnMessage ==
    (call.op = "applyUpgrade" /\ Did("install", "timedOut")) =>
        /\ pc = "idle"
        /\ result.op = "applyUpgrade"
        /\ ~result.success
        /\ result.message # GenericInstallFailure


UpgradeSteps ==
    {"mkdir", "copyFile to backup", "readFile manifest", "writeFile manifest", "install"}

DeclaredVersion(packageJson, packageName) ==
    IF packageJson.dependencies[packageName] # "absent"
    THEN packageJson.dependencies[packageName]
    ELSE packageJson.devDependencies[packageName]

EditKept ==
    (call.op = "applyUpgrade" /\ InstallFailed) =>
        /\ pc = "idle"
        /\ result.op = "applyUpgrade"
        /\ ~result.success
        /\ Did("writeFile manifest", "ok")
        /\ manifest.valid
        /\ DeclaredVersion(manifest, call.package) = call.version
        /\ manifest = [loc.packageJson EXCEPT !.fmt = "stringify2"]
        /\ \A i \in 1..Len(log) : log[i][1] \in UpgradeSteps

\* C12: when install fails or times out after the manifest was rewritten,
\* applyUpgrade returns success = false, the manifest still declares the target
\* version for the package and applyUpgrade attempts no step of either recovery
\* method; the manifest changes only by the write step of applyUpgrade or by a
\* step of a rollbackChanges call.
C12_FailedInstallKeepsEdit ==
    /\ []EditKept
    /\ [][manifest' # manifest =>
             \/ pc = "updatePackageJson.writeFile"
             \/ call.op = "rollbackChanges"]_vars

C12_Witness ==
    /\ call.op = "applyUpgrade"
    /\ Did("install", "timedOut")
    /\ DeclaredVersion(call.manifestAtCall, call.package) = "1.0.0"
    /\ DeclaredVersion(manifest, call.package) = "2.0.0"
    /\ pc = "idle" /\ result.op = "applyUpgrade" /\ ~result.success


StepFailed ==
    \/ \E i \in 1..Len(log) : log[i][2] # "ok"
    \/ Did("readFile manifest", "ok") /\ ~Attempted("writeFile manifest")

\* C13: applyUpgrade never raises: whichever step fails (detection, backup,
\* unreadable or invalid manifest, package not found, write, install, install
\* timeout) the call ends with a result record carrying the requested package
\* and version and a non-empty message, with success = false whenever a step
\* failed and success = true otherwise.
C13_AlwaysAResultRecord ==
    call.op = "applyUpgrade" =>
        /\ call.packageManager \in {"npm", "pnpm", "yarn"}
        /\ pc # "idle" => result = NoCall
        /\ pc = "idle" =>
              /\ result.op = "applyUpgrade"
              /\ result.package = call.package
              /\ result.version = call.version
              /\ result.message # <<>>
              /\ result.success = ~StepFailed

C13_Witness ==
    /\ call.op = "applyUpgrade" /\ call.createBackup
    /\ call.packageManager = "yarn"
    /\ ~manifest.valid
    /\ Did("copyFile to backup", "ok")
    /\ Did("readFile manifest", "ok")
    /\ pc = "idle" /\ result.op = "applyUpgrade" /\ ~result.success
    /\ result.message = <<"Failed to upgrade", "JSON.parse error">>


----------------------------------------------------------------------------
(* Claims about rollbackChanges *)

Count(step) == Cardinality({i \in 1..Len(log) : log[i][1] = step})

GitSucceeded == Did("git checkout manifest", "ok")
GitFailed == Did("git status", "failed") \/ Did("git checkout manifest", "failed")
BackupSucceeded == Did("reinstall", "ok")

BackupFailureMessages == {"Backup rollback failed", "No backup files found"}

\* C14: in rollbackChanges with method auto, once the git attempt has failed
\* the backup method is attempted exactly once; the result is success exactly
\* when one of the two succeeded, with the method that succeeded; when both
\* fail the result is success = false with the backup attempt's message.
C14_AutoFallsBackOnce ==
    (call.op = "rollbackChanges" /\ call.method = "auto") =>
        /\ Count("git status") <= 1
        /\ Count("access backup area") <= 1
        /\ Attempted("access backup area") => GitFailed
        /\ pc = "idle" =>
              /\ result.op = "rollbackChanges"
              /\ GitFailed => Count("access backup area") = 1
              /\ result.success = (GitSucceeded \/ BackupSucceeded)
              /\ result.success =>
                    result.method = IF GitSucceeded THEN "git" ELSE "backup"
              /\ ~result.success =>
                    /\ result.method = "backup"
                    /\ result.message \in BackupFailureMessages

C14_Witness ==
    /\ call.op = "rollbackChanges" /\ call.method = "auto"
    /\ Did("git checkout manifest", "failed")
    /\ Did("copyFile from backup", "ok")
    /\ Did("reinstall", "timedOut")
    /\ pc = "idle" /\ result.op = "rollbackChanges"
    /\ ~result.success /\ result.method = "backup"
    /\ result.message = "Backup rollback failed"


MostRecent(files) == CHOOSE f \in files : \A g \in files : g.created <= f.created

----------------------------------------------------------------------------
(* Claims about getUpgradeType *)

\* the component in which the main parts of two versions first differ
MainDistance(from, to) ==
    IF to.maj # from.maj THEN "major"
    ELSE IF to.min # from.min THEN "minor"
    ELSE IF to.pat # from.pat THEN "patch"
    ELSE "none"

\* to is a larger patch, minor or major increment of the release version from;
\* to may carry a pre-release tag
IsIncrement(from, to) ==
    /\ from.kind = "plain" /\ SemverValid(to)
    /\ SemverGt(to, from)
    /\ MainDistance(from, to) # "none"

Classified == verOut.op = "getUpgradeType"

----------------------------------------------------------------------------
(* Claims about the plan as a whole *)

\* {package, from, to, type} of every proposal, in the order of the list
Tuples(proposals) ==
    [k \in 1..Len(proposals) |->
        <<proposals[k].package, proposals[k].from, proposals[k].to, proposals[k].type>>]

\* C17: two suggestUpgrades calls with the same snapshot and the same strategy
\* end the same way, and when they return, their lists have the same length
\* and the same (package, from, to, type) tuples position by position.
C17_PlanningIsIdempotent ==
    (prevPlan # NoCall /\ prevPlan.strategy = plan.strategy) =>
        /\ plan.status = prevPlan.status
        /\ Len(plan.proposals) = Len(prevPlan.proposals)
        /\ Tuples(plan.proposals) = Tuples(prevPlan.proposals)

C17_Witness ==
    /\ prevPlan # NoCall
    /\ plan.status = "returned"
    /\ Len(plan.proposals) >= 2
    /\ plan.proposals[1].id # prevPlan.proposals[1].id
    /\ plan.proposals[1].package # plan.proposals[2].package
    /\ Tuples(plan.proposals)[1] # Tuples(plan.proposals)[2]
    /\ Tuples(plan.proposals) = Tuples(prevPlan.proposals)


\* the entry of snapshot.outdated a proposal without fixes was generated from:
\* the first one of that name that the strategy lets through
OutdatedPosition(name) ==
    CHOOSE i \in 1..Len(snapshot.outdated) :
        LET Passes(j) ==
                /\ snapshot.outdated[j].name = name
                /\ shouldIncludeUpgrade(snapshot.outdated[j].current,
                                        snapshot.outdated[j].latest, plan.strategy) = "yes"
        IN  Passes(i) /\ \A j \in 1..(i - 1) : ~Passes(j)

\* C18: in the list returned by suggestUpgrades every proposal with a security
\* fix precedes every proposal with none; the proposals with a fix follow the
\* order of the vulnerabilities in the snapshot (advisory ids are positions)
\* and the others the order of the outdated packages in the snapshot.
C18_FixesFirstStableOrder ==
    Returned =>
        \A j \in 1..Len(plan.proposals) : \A k \in 1..Len(plan.proposals) :
            j < k =>
                LET first == plan.proposals[j]
                    second == plan.proposals[k]
                IN  /\ HasFixes(second) => HasFixes(first)
                    /\ (HasFixes(first) /\ HasFixes(second)) =>
                          first.fixes[1] < second.fixes[1]
                    /\ (~HasFixes(first) /\ ~HasFixes(second)) =>
                          OutdatedPosition(first.package) < OutdatedPosition(second.package)

C18_Witness ==
    /\ Returned
    /\ Len(plan.proposals) = 3
    /\ plan.proposals[1].fixes = <<1>>
    /\ plan.proposals[2].fixes = <<2>>
    /\ ~HasFixes(plan.proposals[3])
    /\ plan.proposals[3].package = snapshot.outdated[1].name


----------------------------------------------------------------------------
(* Claims about time limits *)

\* C19: every pipeline operation returns a result even when an external
\* process it started never completes on its own: no operation is ever left at
\* an await that nothing will settle.
C19_EveryCallReturns == pc # "blocked"


----------------------------------------------------------------------------
(* Claims about the backup area *)

BackupStepPassed == pc = "createBackup.copyFile" /\ pc' = "updatePackageJson.readFile"

\* C20: backup records are never deleted and never overwritten: every step
\* leaves the existing records as they are, and a backup step of applyUpgrade
\* that passes adds exactly one record under a name no existing record has,
\* also when two backups are taken at the same clock reading.
C20_BackupsOnlyAccumulate ==
    [][/\ \A f \in backupDir.files :
             \E g \in backupDir'.files : g.name = f.name /\ g.content = f.content
                                         /\ g.created = f.created
       /\ BackupStepPassed =>
             /\ loc.backupName \notin BackupNames
             /\ Cardinality(backupDir'.files) = Cardinality(backupDir.files) + 1
       /\ ~BackupStepPassed => backupDir'.files = backupDir.files]_vars


----------------------------------------------------------------------------
(* Claims about a patched range with no version in it *)

FallbackTarget(currentVersion) ==
    IF SemverValid(currentVersion) THEN SemverIncPatch(currentVersion) ELSE Null

\* C21: for every patched range with no three-part dotted number in it, the
\* empty, the absent and the non-string range included, extractTargetVersion
\* returns the patch-incremented currentVersion when currentVersion parses and
\* none when it does not.
C21_NoVersionFallsBackToIncrement ==
    (verOut.op = "extractTargetVersion" /\ MatchesOf(verIn.patchedVersions) = {}) =>
        verOut.target = FallbackTarget(verIn.currentVersion)


----------------------------------------------------------------------------
(* Claims about the order of the steps of applyUpgrade *)

\* every attempt of step after comes after a successful attempt of step before
OkBefore(before, after) ==
    \A j \in 1..Len(log) :
        log[j][1] = after => \E i \in 1..(j - 1) : log[i] = <<before, "ok">>

\* C22: in every run of applyUpgrade the manifest is neither read for the
\* rewrite nor written before the requested backup has succeeded, install is
\* not started before the write has succeeded, and until the write has
\* succeeded the manifest is the one the call found.
C22_BackupThenRewriteThenInstall ==
    call.op = "applyUpgrade" =>
        /\ call.createBackup =>
              /\ OkBefore("copyFile to backup", "readFile manifest")
              /\ OkBefore("copyFile to backup", "writeFile manifest")
              /\ OkBefore("copyFile to backup", "install")
        /\ OkBefore("writeFile manifest", "install")
        /\ ~Did("writeFile manifest", "ok") => manifest = call.manifestAtCall
        /\ \A step \in UpgradeSteps : Count(step) <= 1

C22_Witness ==
    /\ call.op = "applyUpgrade" /\ call.createBackup
    /\ Len(log) >= 4
    /\ log[Len(log) - 3] = <<"copyFile to backup", "ok">>
    /\ log[Len(log) - 2] = <<"readFile manifest", "ok">>
    /\ log[Len(log) - 1] = <<"writeFile manifest", "ok">>
    /\ log[Len(log)] = <<"install", "ok">>
    /\ manifest # call.manifestAtCall
    /\ pc = "idle" /\ result.op = "applyUpgrade" /\ result.success


\* C23: with skipInstall set applyUpgrade never invokes install and returns
\* success right after a successful manifest write; without it install is
\* invoked exactly once, after the write, and the result is success only if
\* install succeeded.
C23_SkipInstallSkipsInstall ==
    call.op = "applyUpgrade" =>
        /\ call.skipInstall =>
              /\ ~Attempted("install")
              /\ Did("writeFile manifest", "ok") =>
                    pc = "idle" /\ result.op = "applyUpgrade" /\ result.success
        /\ ~call.skipInstall =>
              /\ Count("install") <= 1
              /\ OkBefore("writeFile manifest", "install")
              /\ Did("writeFile manifest", "ok") =>
                    pc = "installDependencies" \/ Count("install") = 1
              /\ (pc = "idle" /\ result.success) => Did("install", "ok")


----------------------------------------------------------------------------
(* Claims about the recovery methods *)

\* C24: rollbackChanges with method git attempts no step of the backup method;
\* when the git attempt fails the call returns success = false with method git
\* and the git failure message, and the manifest is as the call found it.
C24_ExplicitGitOnlyGit ==
    (call.op = "rollbackChanges" /\ call.method = "git") =>
        /\ \A step \in BackupMethodSteps : ~Attempted(step)
        /\ GitFailed =>
              /\ pc = "idle"
              /\ result.op = "rollbackChanges"
              /\ ~result.success
              /\ result.method = "git"
              /\ result.message = "Git rollback failed"
              /\ manifest = call.manifestAtCall

C24_Witness ==
    /\ call.op = "rollbackChanges" /\ call.method = "git"
    /\ Did("git checkout manifest", "failed")
    /\ backupDir.exists /\ backupDir.files # {}
    /\ \A f \in backupDir.files : f.content # manifest
    /\ pc = "idle" /\ result.op = "rollbackChanges"
    /\ ~result.success /\ result.method = "git"


\* C25: round trip. When the last applyUpgrade call was asked for a backup and
\* passed the backup step on a manifest with content M, whether it then
\* succeeded or failed at rewrite or install, a rollbackChanges with method
\* backup whose file copy succeeds leaves the manifest with content M, byte for
\* byte.
C25_BackupRollbackRoundTrip ==
    /\ (call.op = "applyUpgrade" /\ Did("copyFile to backup", "ok")) =>
          backedUp = call.manifestAtCall
    /\ (/\ call.op = "rollbackChanges" /\ call.method = "backup"
        /\ backedUp # NoCall
        /\ Did("copyFile from backup", "ok")) => manifest = backedUp

C25_Witness ==
    /\ call.op = "rollbackChanges" /\ call.method = "backup"
    /\ backedUp # NoCall
    /\ backedUp.fmt = "custom"
    /\ call.manifestAtCall # backedUp
    /\ Cardinality(backupDir.files) = 2
    /\ Did("copyFile from backup", "ok")
    /\ manifest = backedUp
    /\ pc = "idle" /\ result.op = "rollbackChanges"


----------------------------------------------------------------------------
(* Claims about unparseable versions in the snapshot *)

\* C26: for every snapshot that deserializes with its two lists,
\* suggestUpgrades returns a plan under every strategy, unparseable version
\* strings in outdated entries included.
C26_PlanningNeverRaises ==
    (plan.op = "suggestUpgrades" /\ snapshot.parses) => plan.status = "returned"


\* C27: every proposal returned by suggestUpgrades has the type that
\* getUpgradeType gives for the proposal's own from and to, the proposals made
\* from outdated entries under the conservative strategy included.
C27_TypeIsOfOwnFromTo ==
    Returned => \A k \in 1..Len(plan.proposals) :
                    plan.proposals[k].type =
                        getUpgradeType(plan.proposals[k].from, plan.proposals[k].to)


----------------------------------------------------------------------------
(* Claims about the first backup of a project *)

\* C28: applyUpgrade asked for a backup never attempts the backup copy while
\* the backup area is missing (it creates the area first), and once the copy
\* has succeeded the area holds the manifest the call found and the call has
\* gone on to the manifest rewrite.
C28_BackupAreaCreatedOnDemand ==
    (call.op = "applyUpgrade" /\ call.createBackup) =>
        /\ Attempted("copyFile to backup") => backupDir.exists
        /\ Did("copyFile to backup", "ok") =>
              /\ \E f \in backupDir.files :
                    f.name = loc.backupName /\ f.content = call.manifestAtCall
              /\ pc = "updatePackageJson.readFile" \/ Attempted("readFile manifest")


----------------------------------------------------------------------------
(* Claims about calls that overlap *)

BothSucceeded ==
    /\ \A c \in Callers : pc[c] = "idle" /\ result[c] # NoCall /\ result[c].success
    /\ call[1].package # call[2].package

\* C29: no lost update. When two applyUpgrade calls for two different packages
\* overlap against one project directory and both return success, the manifest
\* declares both target versions.
C29_NoLostUpdate ==
    BothSucceeded =>
        \A c \in Callers :
            DeclaredVersion(manifest, call[c].package) = call[c].version


----------------------------------------------------------------------------
(* Claims about a backup recovery that fails *)

ReinstallFailed == Did("reinstall", "failed") \/ Did("reinstall", "timedOut")

\* C30: in the backup recovery method the reinstall starts only after the
\* manifest was restored; when the reinstall fails or times out the result is
\* success = false while the manifest holds the content of the latest backup;
\* a backup recovery that has not passed the copy step leaves the manifest as
\* the call found it.
C30_RestoredBeforeReinstall ==
    call.op = "rollbackChanges" =>
        /\ OkBefore("copyFile from backup", "reinstall")
        /\ ReinstallFailed =>
              /\ pc = "idle"
              /\ result.op = "rollbackChanges"
              /\ ~result.success
              /\ result.method = "backup"
              /\ manifest = BackupContent(LatestBackup(BackupNames))
        /\ (Attempted("access backup area") /\ ~Did("copyFile from backup", "ok")) =>
              manifest = call.manifestAtCall

C30_Witness ==
    /\ call.op = "rollbackChanges" /\ call.method = "backup"
    /\ Did("reinstall", "failed")
    /\ manifest # call.manifestAtCall
    /\ manifest = BackupContent(LatestBackup(BackupNames))
    /\ pc = "idle" /\ result.op = "rollbackChanges" /\ ~result.success

====
